---- MODULE Spec2Model ----
(***************************************************************************)
(* State-machine model of the Telegram error logger:                       *)
(*   TelegramErrorLogger  (sendError, sendCustomMessage, sendRawMessage,   *)
(*                         checkRateLimit, isDuplicate, recordError,       *)
(*                         the cleanup interval)                           *)
(*   TelegramClient       (sendMessage, sendMessageWithRetry)              *)
(* One action is one run-to-completion step of the JavaScript event loop:  *)
(* the synchronous prefix of an async call up to its first pending         *)
(* promise, the continuation that runs when an HTTP response or a timer    *)
(* settles, a tick of the clock, one firing of the cleanup interval.       *)
(***************************************************************************)
EXTENDS Integers, Sequences, FiniteSets, TLC

VARIABLES
    config,          \* this.config, fixed by the constructor
    now,             \* Date.now()
    errorCounts,     \* this.errorCounts : Map timestamp -> count
    errorHashes,     \* this.errorHashes : Map hash -> timestamp
    cleanupInterval, \* TRUE while the setInterval handle is scheduled
    calls,           \* the async calls whose promise is pending, in call order
    settled,         \* the call whose promise settled last
    log,             \* history: the sendError calls that reached checkRateLimit
    made,            \* history: number of calls made so far
    destroyed,       \* history: number of destroy() calls that returned
    input,           \* the arguments of a function called on its own
    output,          \* what that function returned or did
    closed           \* TRUE once the Fastify instance that owns the logger has closed

vars == <<config, now, errorCounts, errorHashes, cleanupInterval, calls, settled,
          log, made, destroyed, input, output, closed>>

-----------------------------------------------------------------------------
(* Bounds of the model *)

MaxCalls == 3       \* calls made on the logger in one run
MaxTime == 4        \* the clock runs from 1 to MaxTime
MaxRetries == 3     \* largest retries argument of a direct sendMessageWithRetry call
MaxOver == 30       \* message lengths run from maxMessageLength - MaxOver to + MaxOver
MaxDestroys == 2    \* destroy() calls in one run

(* Program constants *)

DefaultRateLimitWindow == 60000
DefaultRateLimitMax == 10
DefaultDeduplicateWindow == 300000
DefaultRetryAttempts == 3
BackoffBaseMs == 1000
maxMessageLength == 4096

-----------------------------------------------------------------------------
(* Values *)

Null == "null"              \* JavaScript null, the result of a dropped or failed call
Undefined == "undefined"
Data == "response.data"     \* the body of a 2xx answer of the endpoint (truthy)
TypeError == "TypeError"    \* raised by reading a property of null or undefined
NetworkError == "AxiosError" \* an Error object: network error, non-2xx, timeout
Nullish == "nullish"        \* the value null or undefined, thrown or used as rejection

\* the body of a 2xx answer whose envelope does not say ok: true (an object, truthy)
NotOk == "response.data.ok=false"

\* What one axios.post can do: resolve with a body, or reject with a value.
TransportOutcomes == {Data, NetworkError, Nullish}

\* The same, with the 2xx answers told apart by their envelope.
EndpointOutcomes == TransportOutcomes \cup {NotOk}

\* What the errorFilter hook can do when it is configured.
FilterOutcomes == {"pass", "reject", "Error", Nullish}

\* What a formatter can do: return the message, or throw an Error.
FormatOutcomes == {"ok", "Error"}

\* The events reported: an error (name, message) and its context (route, url).
Events ==
    { [name |-> "Error", message |-> "boom", route |-> "/test", url |-> "/test?x"],
      [name |-> "Error", message |-> "boom", route |-> "", url |-> "/other"] }

\* Raw constructor options; 0 stands for an option that is not given.
RawConfigs ==
    [ errorFilter : BOOLEAN,
      rateLimitWindow : {2},
      rateLimitMax : {1, 2},
      deduplicate : BOOLEAN,
      deduplicateWindow : {3},
      retryAttempts : {2} ]

-----------------------------------------------------------------------------
(* JavaScript helpers *)

\* a || b on numbers: 0 and undefined are falsy
Or(a, b) == IF a = 0 THEN b ELSE a

\* a || b on strings: '' and undefined are falsy
OrStr(a, b) == IF a = "" THEN b ELSE a

\* reading err.message throws a TypeError when err is null or undefined
HasMessage(err) == err # Nullish

RECURSIVE SumCounts(_, _)
SumCounts(m, keys) ==
    IF keys = {} THEN 0
    ELSE LET k == CHOOSE x \in keys : TRUE
         IN m[k] + SumCounts(m, keys \ {k})

\* Array.from(map.values()).reduce((sum, count) => sum + count, 0)
Total(m) == SumCounts(m, DOMAIN m)

EmptyMap == [x \in {} |-> 0]

\* map.set(k, v)
MapSet(m, k, v) == [x \in DOMAIN m \cup {k} |-> IF x = k THEN v ELSE m[x]]

\* the map without the keys in dead
MapDelete(m, dead) == [x \in DOMAIN m \ dead |-> m[x]]

\* String.prototype.substring(start, end) on a string held as a sequence of
\* characters; start and end are 0-based, end is exclusive and capped
substring(s, start, end) ==
    SubSeq(s, start + 1, IF end > Len(s) THEN Len(s) ELSE end)

\* the result of a function called on its own
NotCalled == [called |-> FALSE]

Returns(value) == [called |-> TRUE, threw |-> FALSE, value |-> value]

Throws(value) == [called |-> TRUE, threw |-> TRUE, value |-> value]

-----------------------------------------------------------------------------
(* TelegramErrorLogger constructor *)

Constructor(raw) ==
    [ errorFilter |-> raw.errorFilter,
      rateLimitWindow |-> Or(raw.rateLimitWindow, DefaultRateLimitWindow),
      rateLimitMax |-> Or(raw.rateLimitMax, DefaultRateLimitMax),
      deduplicate |-> raw.deduplicate,
      deduplicateWindow |-> Or(raw.deduplicateWindow, DefaultDeduplicateWindow),
      retryAttempts |-> Or(raw.retryAttempts, DefaultRetryAttempts) ]

\* The options a caller may hand to the constructor; '' stands for a required
\* option that is missing, 0 for an optional one that is not given.
ConstructorOptions ==
    [ botToken : {"", "123:abc"},
      chatId : {"", "-1001"},
      errorFilter : BOOLEAN,
      rateLimitWindow : {0, 2},
      rateLimitMax : {0, 1, 2},
      deduplicate : BOOLEAN,
      deduplicateWindow : {0, 3},
      retryAttempts : {0, 2} ]

\* if (!config.botToken) throw ...; if (!config.chatId) throw ...
\* (the same two checks open the TelegramClient constructor)
Validate(botToken, chatId) ==
    IF botToken = "" THEN "Telegram bot token is required"
    ELSE IF chatId = "" THEN "Telegram chat ID is required"
    ELSE "ok"

\* variant: the maps and the interval exist before the options are validated
ThrowsUnconstructedStarted(message) ==
    [ output |-> Throws(message), config |-> Undefined, errorCounts |-> EmptyMap,
      errorHashes |-> EmptyMap, cleanupInterval |-> TRUE ]

\* a throw out of the constructor before this.errorCounts, this.errorHashes
\* and the interval are set: the fields do not exist and no timer runs
ThrowsUnconstructed(message) ==
    [ output |-> Throws(message), config |-> Undefined, errorCounts |-> Undefined,
      errorHashes |-> Undefined, cleanupInterval |-> FALSE ]

\* new TelegramErrorLogger(options): what the call does and the fields it leaves
New(options) ==
    IF Validate(options.botToken, options.chatId) # "ok"
    THEN ThrowsUnconstructed(Validate(options.botToken, options.chatId))
    ELSE LET thisConfig == Constructor(options)
         IN  \* new TelegramClient(config.botToken, config.chatId)
             IF Validate(options.botToken, options.chatId) # "ok"
             THEN ThrowsUnconstructed(Validate(options.botToken, options.chatId))
             ELSE [ output |-> Returns("TelegramErrorLogger"),
                    config |-> thisConfig,
                    errorCounts |-> EmptyMap,
                    errorHashes |-> EmptyMap,
                    cleanupInterval |-> TRUE ]

-----------------------------------------------------------------------------
(* Promises of the async calls *)

\* The state of one async call and of the promise it returned.
CallRecord(id, kind, at, ev, f) ==
    [ id |-> id,              \* position of the call among the calls made
      kind |-> kind,          \* "error", "custom", "raw", "retry"
      at |-> at,             \* Date.now() when the call was made
      ev |-> ev,              \* the event reported (sendError)
      filter |-> f,           \* what the errorFilter hook did ("none": not consulted)
      stage |-> "entered",    \* the stage at which the call left the pipeline
      pc |-> "entered",       \* "post", "wait", "done" (resolved), "rejected"
      i |-> 0,                \* loop index of sendMessageWithRetry
      retries |-> 0,          \* its retries argument
      posts |-> 0,            \* axios.post calls issued
      outcomes |-> <<>>,      \* how each axios.post settled
      waits |-> <<>>,         \* setTimeout delays awaited, in ms
      lastError |-> Undefined,
      result |-> Undefined ]  \* value the promise resolved to

\* A call that has just been entered.
NewCall(kind, ev, f) == CallRecord(made + 1, kind, now, ev, f)

\* no call has settled yet
NoCall == CallRecord(0, "none", 0, "none", "none")

Settled(c) == c.pc \in {"done", "rejected"}

Resolve(c, v) == [c EXCEPT !.pc = "done", !.result = v]

Reject(c) == [c EXCEPT !.pc = "rejected"]

\* catch (err) { console.error('...', err.message); return null; }
catchHandler(c, err) == IF HasMessage(err) THEN Resolve(c, Null) ELSE Reject(c)

-----------------------------------------------------------------------------
(* Rate limiter *)

\* variant: an entry aged exactly the window is dropped too
RateEntryIsOldAtBoundary(timestamp, windowStart) == timestamp <= windowStart

\* if (timestamp < windowStart) this.errorCounts.delete(timestamp)
RateEntryIsOld(timestamp, windowStart) == timestamp < windowStart

\* variant: the limit is reached one event late
RateLimitReachedLate(errorCount) == errorCount > config.rateLimitMax

\* if (errorCount >= this.config.rateLimitMax) return false
RateLimitReached(errorCount) == errorCount >= config.rateLimitMax

\* variant: a rejected check records its timestamp as well
checkRateLimitRecordsRejected(ec, t) ==
    LET windowStart == t - config.rateLimitWindow
        cleaned == MapDelete(ec, {ts \in DOMAIN ec : RateEntryIsOld(ts, windowStart)})
    IN  [ok |-> ~RateLimitReached(Total(cleaned)),
         errorCounts |->
             MapSet(cleaned, t, (IF t \in DOMAIN cleaned THEN cleaned[t] ELSE 0) + 1)]

\* checkRateLimit(): [ok, errorCounts] is the value returned and the map it leaves
checkRateLimit(ec, t) ==
    LET windowStart == t - config.rateLimitWindow
        cleaned == MapDelete(ec, {ts \in DOMAIN ec : RateEntryIsOld(ts, windowStart)})
        errorCount == Total(cleaned)
    IN  IF RateLimitReached(errorCount)
        THEN [ok |-> FALSE, errorCounts |-> cleaned]
        ELSE [ok |-> TRUE,
              errorCounts |->
                  MapSet(cleaned, t, (IF t \in DOMAIN cleaned THEN cleaned[t] ELSE 0) + 1)]

-----------------------------------------------------------------------------
(* Deduplicator *)

\* variant: the identity leaves the message out
getErrorHashWithoutMessage(ev) ==
    ev.name \o ":" \o OrStr(ev.route, OrStr(ev.url, ""))

\* `${error.name}:${error.message}:${context.route || context.url || ''}`
getErrorHash(ev) ==
    ev.name \o ":" \o ev.message \o ":" \o OrStr(ev.route, OrStr(ev.url, ""))

\* variant: a gap of exactly the window still counts as a duplicate
WithinDedupWindowInclusive(t, lastSeen) == (t - lastSeen) <= config.deduplicateWindow

\* return (now - lastSeen) < this.config.deduplicateWindow
WithinDedupWindow(t, lastSeen) == (t - lastSeen) < config.deduplicateWindow

\* isDuplicate(errorHash): a missing entry and a timestamp of 0 are both falsy
isDuplicate(eh, errorHash, t) ==
    IF errorHash \notin DOMAIN eh \/ eh[errorHash] = 0
    THEN FALSE
    ELSE WithinDedupWindow(t, eh[errorHash])

\* variant: the identity is not recorded before the call suspends
recordErrorLater(eh, errorHash, t) == eh

\* recordError(errorHash)
recordError(eh, errorHash, t) == MapSet(eh, errorHash, t)

-----------------------------------------------------------------------------
(* TelegramClient *)

\* const truncationNotice = '\n\n... (message truncated)'
TruncationNotice ==
    << "\n", "\n", ".", ".", ".", " ", "(", "m", "e", "s", "s", "a", "g", "e", " ",
       "t", "r", "u", "n", "c", "a", "t", "e", "d", ")" >>

\* variant: the notice is appended to maxMessageLength characters of the message
TruncatedLengthWhole(noticeLength) == maxMessageLength

\* const maxLength = this.maxMessageLength - truncationNotice.length
TruncatedLength(noticeLength) == maxMessageLength - noticeLength

\* truncateMessage(message)
truncateMessage(message) ==
    IF Len(message) <= maxMessageLength
    THEN message
    ELSE substring(message, 0, TruncatedLength(Len(TruncationNotice)))
         \o TruncationNotice

\* the payload of sendMessage(message, options): chat_id, text, parse_mode and
\* disable_web_page_preview, then `...options`, whose keys come last and
\* replace the keys of the same name
payload(thisChatId, message, options) ==
    options @@
    [ chat_id |-> thisChatId,
      text |-> truncateMessage(message),
      parse_mode |-> IF "parseMode" \in DOMAIN options THEN options.parseMode ELSE "HTML",
      disable_web_page_preview |->
          IF "disableWebPagePreview" \in DOMAIN options
          THEN options.disableWebPagePreview # FALSE
          ELSE TRUE ]

\* axios.post(`${this.baseUrl}/sendMessage`, payload, ...)
axiosPost(body) == [method |-> "POST", path |-> "/sendMessage", body |-> body]

\* the options that sendError and sendCustomMessage hand to
\* sendMessageWithRetry, and it to sendMessage: {}
NoOptions == <<>>

\* sendMessage up to `await axios.post(...)`: one HTTP request goes out
Post(c) == [c EXCEPT !.pc = "post", !.posts = @ + 1]

\* How sendMessage settles once axios.post has settled with outcome o:
\*   resolved    -> return response.data
\*   rejected    -> catch (error) { console.error('...', error.message); return null; }
sendMessageSettles(o) ==
    IF o \in {Data, NotOk} THEN [throws |-> FALSE, value |-> o]
    ELSE IF HasMessage(o) THEN [throws |-> FALSE, value |-> Null]
    ELSE [throws |-> TRUE, value |-> TypeError]

\* variant: sendMessage issues the request again when it failed
SendAfterAttemptRetrying(c, s) ==
    IF s.throws THEN Reject(c)
    ELSE IF s.value = Null /\ c.posts < 2 THEN Post(c)
    ELSE Resolve(c, s.value)

\* a direct call of sendMessage after its axios.post settled with s: the
\* promise resolves to what sendMessage returns, or rejects with what it throws
SendAfterAttempt(c, s) ==
    IF s.throws THEN Reject(c) ELSE Resolve(c, s.value)

\* variant: one attempt too many
LoopContinuesOnceMore(i, retries) == i <= retries

\* for (let i = 0; i < retries; i++)
LoopContinues(i, retries) == i < retries

\* variant: the driver also waits after the last attempt
WaitsBeforeRetryAlways(i, retries) == i < retries

\* if (i < retries - 1) await new Promise(resolve => setTimeout(resolve, ...))
WaitsBeforeRetry(i, retries) == i < retries - 1

\* Math.pow(2, i) * 1000
BackoffDelay(i) == (2 ^ i) * BackoffBaseMs

\* the head of the loop of sendMessageWithRetry: the next attempt, or the
\* code after the loop (console.error(..., lastError?.message); return null)
RetryLoop(c) ==
    IF LoopContinues(c.i, c.retries) THEN Post(c) ELSE Resolve(c, Null)

\* sendMessageWithRetry(message, options, retries) up to its first await
sendMessageWithRetry(c, retries) ==
    RetryLoop([c EXCEPT !.retries = retries, !.i = 0, !.lastError = Undefined])

\* if (result) return result
ReturnsResult(result) == result # Null

\* the loop body after `await this.sendMessage(...)` settled with s
RetryAfterAttempt(c, s) ==
    IF ~s.throws
    THEN IF ReturnsResult(s.value)
         THEN Resolve(c, s.value)
         ELSE RetryLoop([c EXCEPT !.i = @ + 1])
    ELSE LET c1 == [c EXCEPT !.lastError = s.value]
         IN  IF WaitsBeforeRetry(c.i, c.retries)
             THEN [c1 EXCEPT !.pc = "wait", !.waits = Append(@, BackoffDelay(c.i))]
             ELSE RetryLoop([c1 EXCEPT !.i = @ + 1])

\* the backoff timer fired: i++ and the next attempt
RetryAfterWait(c) == RetryLoop([c EXCEPT !.i = @ + 1])

\* variant: sendRawMessage sends again when its attempt failed
RawAfterAttemptRetrying(c, s) ==
    IF (s.throws \/ s.value = Null) /\ c.posts < 2
    THEN Post(c)
    ELSE IF ~s.throws THEN Resolve(c, s.value) ELSE catchHandler(c, s.value)

\* sendRawMessage after `await this.telegramClient.sendMessage(...)` settled with s
RawAfterAttempt(c, s) ==
    IF ~s.throws THEN Resolve(c, s.value) ELSE catchHandler(c, s.value)

-----------------------------------------------------------------------------
(* TelegramErrorLogger: the synchronous prefix of each public method.      *)
(* Each returns the maps it leaves and the state of the call's promise.    *)

Left(ec, eh, c) == [errorCounts |-> ec, errorHashes |-> eh, call |-> c]

At(c, stage) == [c EXCEPT !.stage = stage]

\* if (this.config.errorFilter && !this.config.errorFilter(error, context))
FilterStops(f) == config.errorFilter /\ f = "reject"

\* variant: the filtered event is counted by the rate limiter before it is dropped
ReturnFilteredCounted(c) ==
    Left(checkRateLimit(errorCounts, now).errorCounts, errorHashes,
         Resolve(At(c, "filtered"), Null))

\* ... return null (the filter stopped the event)
ReturnFiltered(c) == Left(errorCounts, errorHashes, Resolve(At(c, "filtered"), Null))

\* variant: the deduplicator records the event before the rate limiter's
\* rejection stops it
ReturnRateLimitedRecorded(ec, c) ==
    Left(ec, recordError(errorHashes, getErrorHash(c.ev), now),
         Resolve(At(c, "rate-limited"), Null))

\* if (!this.checkRateLimit()) { ...; return null; }
ReturnRateLimited(ec, c) == Left(ec, errorHashes, Resolve(At(c, "rate-limited"), Null))

\* variant: a suppressed duplicate gives back the capacity it took
ReturnDuplicateUncounted(ec, c) ==
    Left(errorCounts, errorHashes, Resolve(At(c, "duplicate"), Null))

\* variant: a suppressed duplicate refreshes the timestamp of its identity
ReturnDuplicateRefreshed(ec, c) ==
    Left(ec, recordError(errorHashes, getErrorHash(c.ev), now),
         Resolve(At(c, "duplicate"), Null))

\* if (this.isDuplicate(errorHash)) { ...; return null; }
ReturnDuplicate(ec, c) == Left(ec, errorHashes, Resolve(At(c, "duplicate"), Null))

\* sendError(error, context): f is what the errorFilter hook does, fmt what
\* errorFormatter.format does
sendError(ev, f, fmt) ==
    LET c == NewCall("error", ev, f)
    IN  IF config.errorFilter /\ f \in {"Error", Nullish}
        THEN Left(errorCounts, errorHashes, catchHandler(At(c, "filter-threw"), f))
        ELSE IF FilterStops(f)
        THEN ReturnFiltered(c)
        ELSE
        LET rl == checkRateLimit(errorCounts, now)
        IN  IF ~rl.ok
            THEN ReturnRateLimited(rl.errorCounts, c)
            ELSE
            LET errorHash == getErrorHash(ev)
                dup == config.deduplicate /\ isDuplicate(errorHashes, errorHash, now)
                eh == IF config.deduplicate /\ ~dup
                      THEN recordError(errorHashes, errorHash, now)
                      ELSE errorHashes
            IN  IF dup
                THEN ReturnDuplicate(rl.errorCounts, c)
                ELSE IF fmt = "Error"
                THEN Left(rl.errorCounts, eh, catchHandler(At(c, "format-threw"), fmt))
                ELSE Left(rl.errorCounts, eh,
                          sendMessageWithRetry(At(c, "delivery"), config.retryAttempts))

\* variant: custom messages go through the rate limiter like errors
sendCustomMessageThrottled(fmt) ==
    LET c == NewCall("custom", "none", "none")
        rl == checkRateLimit(errorCounts, now)
    IN  IF ~rl.ok
        THEN Left(rl.errorCounts, errorHashes, Resolve(At(c, "rate-limited"), Null))
        ELSE IF fmt = "Error"
        THEN Left(rl.errorCounts, errorHashes, catchHandler(At(c, "format-threw"), fmt))
        ELSE Left(rl.errorCounts, errorHashes,
                  sendMessageWithRetry(At(c, "delivery"), config.retryAttempts))

\* sendCustomMessage(message, options)
sendCustomMessage(fmt) ==
    LET c == NewCall("custom", "none", "none")
    IN  IF fmt = "Error"
        THEN Left(errorCounts, errorHashes, catchHandler(At(c, "format-threw"), fmt))
        ELSE Left(errorCounts, errorHashes,
                  sendMessageWithRetry(At(c, "delivery"), config.retryAttempts))

\* sendRawMessage(message, options)
sendRawMessage ==
    Left(errorCounts, errorHashes, Post(At(NewCall("raw", "none", "none"), "delivery")))

\* variant: the sweep also removes the entries that are exactly one window old
cleanupAtBoundary ==
    [ errorCounts |->
          MapDelete(errorCounts,
              {ts \in DOMAIN errorCounts : ts <= now - config.rateLimitWindow}),
      errorHashes |->
          MapDelete(errorHashes,
              {h \in DOMAIN errorHashes : errorHashes[h] <= now - config.deduplicateWindow}) ]

\* variant: the sweep cleans errorCounts and leaves errorHashes alone
cleanupRateOnly ==
    [ errorCounts |->
          MapDelete(errorCounts,
              {ts \in DOMAIN errorCounts : ts < now - config.rateLimitWindow}),
      errorHashes |-> errorHashes ]

\* the callback of setInterval: what it leaves in errorCounts and errorHashes
cleanup ==
    LET rateLimitWindowStart == now - config.rateLimitWindow
        deduplicateWindowStart == now - config.deduplicateWindow
    IN  [ errorCounts |->
              MapDelete(errorCounts,
                  {ts \in DOMAIN errorCounts : ts < rateLimitWindowStart}),
          errorHashes |->
              MapDelete(errorHashes,
                  {h \in DOMAIN errorHashes : errorHashes[h] < deduplicateWindowStart}) ]

\* variant: destroy() leaves the interval as it is
destroyLeavesTimer(scheduled) == scheduled

\* destroy(): if (this.cleanupInterval) clearInterval(this.cleanupInterval).
\* The handle the constructor stored is an object and stays in the field, so
\* every call clears it; an interval that is cleared is not scheduled, whether
\* or not it was before.
destroy(scheduled) == FALSE

-----------------------------------------------------------------------------
(* ErrorFormatter *)

Redacted == "[REDACTED]"

\* const sensitiveFields = [...]
sensitiveFields == {"password", "token", "secret", "apiKey", "api_key", "authorization"}

\* const sensitiveHeaders = [...]
sensitiveHeaders == {"authorization", "cookie", "x-api-key", "x-auth-token"}

\* if (sanitized[field]): the empty string is falsy
Truthy(value) == value # ""

\* sanitizeBody(body)
sanitizeBody(body) ==
    [field \in DOMAIN body |->
        IF field \in sensitiveFields /\ Truthy(body[field])
        THEN Redacted ELSE body[field]]

\* sanitizeHeaders(headers)
sanitizeHeaders(headers) ==
    [header \in DOMAIN headers |->
        IF header \in sensitiveHeaders /\ Truthy(headers[header])
        THEN Redacted ELSE headers[header]]

\* the keys of the request bodies and headers, in the order of Object.keys
BodyKeys == <<"username", "password", "pwd">>

HeaderKeys == <<"accept", "authorization">>

\* formatObject(obj): JSON.stringify(obj, null, 2), the pairs "key": "value"
\* in key order (the objects here stay below the 500 characters shown)
formatObject(obj, keys) == [i \in DOMAIN keys |-> <<keys[i], obj[keys[i]]>>]

\* formatContext(context): the Route, Body and Headers lines
formatContext(context) ==
    (IF context.route # "" THEN << <<"Route:", context.route>> >> ELSE <<>>)
    \o << <<"Body:", formatObject(sanitizeBody(context.body), BodyKeys)>>,
          <<"Headers:", formatObject(sanitizeHeaders(context.headers), HeaderKeys)>> >>

\* format(error, context): the error details, then the context
format(error, context) ==
    << <<"Type:", error.name>>, <<"Message:", error.message>> >>
    \o formatContext(context)

-----------------------------------------------------------------------------
(* Express adapter *)

\* What reaches the middleware: the error, the route and the URL of the
\* request, whether the adapter finds the request in options.excludeRoutes,
\* what each hook of options does ("none": not
\* configured; "Error", Nullish: it throws that), and how the promise of the
\* sendError call settles (sendError is async: it never throws to its caller)
Requested ==
    [ error : {"TypeError: x is undefined", "Error: boom"},
      route : {"/test"},
      url : {"/test?x"},
      user : BOOLEAN,
      excluded : BOOLEAN,
      errorFilter : {"none", "pass", "reject", "Error", Nullish},
      extractUser : {"none", "ok", "Error"},
      contextExtractor : {"none", "ok", "Error"},
      sendError : {"resolves", "rejects"} ]

\* variant: when extractUser throws, the default extraction from req.user runs
extractContextDefaultUser(req) ==
    [ url |-> req.url,
      route |-> req.route,
      user |-> IF req.extractUser = "ok" THEN "user"
               ELSE IF req.user THEN "req.user" ELSE Undefined,
      custom |-> IF req.contextExtractor = "ok" THEN "custom" ELSE Undefined ]

\* extractContext(req, options), the same in both adapters: both hooks run
\* inside their own try/catch, and a hook that throws leaves its field unset;
\* the user set on the request (req.user) is read only when options has no
\* extractUser
extractContext(req) ==
    [ url |-> req.url,
      route |-> req.route,
      user |-> IF req.extractUser = "ok" THEN "user"
               ELSE IF req.extractUser = "none" /\ req.user THEN "req.user"
               ELSE Undefined,
      custom |-> IF req.contextExtractor = "ok" THEN "custom" ELSE Undefined ]

\* What the middleware has done: the values passed to next, in order; whether
\* it has returned; whether and with which context sendError was called; the
\* console.error lines written
Did(nextCalls, returned, sent, context, logged) ==
    [ next |-> nextCalls, returned |-> returned, sent |-> sent,
      context |-> context, logged |-> logged ]

\* variant: next(error) is called on the early path without returning
NextAndReturnFallsThrough(error) == Did(<<error>>, FALSE, FALSE, Undefined, 0)

\* return next(error)
NextAndReturn(error) == Did(<<error>>, TRUE, FALSE, Undefined, 0)

\* the try block of telegramErrorMiddleware with its catch
tryBlock(req) ==
    IF req.excluded
    THEN NextAndReturn(req.error)
    ELSE IF req.errorFilter \in {"Error", Nullish}
    THEN Did(<<>>, FALSE, FALSE, Undefined, 1)
    ELSE IF req.errorFilter = "reject"
    THEN NextAndReturn(req.error)
    ELSE Did(<<>>, FALSE, TRUE, extractContext(req), 0)

\* telegramErrorMiddleware(error, req, res, next): the try block, then
\* next(error) unless the try block returned
telegramErrorMiddleware(req) ==
    LET did == tryBlock(req)
    IN  IF did.returned
        THEN did
        ELSE [did EXCEPT !.next = Append(@, req.error), !.returned = TRUE]

-----------------------------------------------------------------------------
(* Fastify adapter *)

\* the onError hook up to its first await: it returns early for an excluded
\* URL and for an error the filter rejects, lands in its catch block
\* (fastify.log.error) when the filter throws, and otherwise calls sendError
\* and awaits it: the hook has not returned then
onErrorHook(req) ==
    IF req.excluded
    THEN Did(<<>>, TRUE, FALSE, Undefined, 0)
    ELSE IF req.errorFilter \in {"Error", Nullish}
    THEN Did(<<>>, TRUE, FALSE, Undefined, 1)
    ELSE IF req.errorFilter = "reject"
    THEN Did(<<>>, TRUE, FALSE, Undefined, 0)
    ELSE Did(<<>>, FALSE, TRUE, extractContext(req), 0)

\* the hook after `await logger.sendError(error, context)` settled: it
\* returns, through its catch block when the promise rejected
onErrorHookResumes(did, rejected) ==
    [did EXCEPT !.returned = TRUE, !.logged = IF rejected THEN @ + 1 ELSE @]

\* variant: the onClose hook leaves the logger alone
onCloseKeepsLogger(scheduled) == scheduled

\* the onClose hook: logger.destroy()
onClose(scheduled) == destroy(scheduled)

\* A failed request as a framework hands it to its adapter: the path of the
\* route that threw, the query string of the request, options.excludeRoutes
\* and what the hooks of options do.
AdapterRequests ==
    [ adapter : {"express", "fastify"},
      path : {"/health", "/api"},
      query : {"", "?probe=1"},
      user : BOOLEAN,
      excludeRoutes : {{}, {"/health"}},
      errorFilter : {"none", "pass", "reject", "Error", Nullish},
      extractUser : {"none", "ok", "Error"},
      contextExtractor : {"none", "ok", "Error"} ]

\* options.excludeRoutes.includes(req.path): Express matches the path
ExpressExcludes(h) == h.path \in h.excludeRoutes

\* options.excludeRoutes.includes(request.url): Fastify matches the URL, the
\* path with the query string
FastifyExcludes(h) == (h.path \o h.query) \in h.excludeRoutes

\* the request of h as its adapter sees it
AsRequested(h) ==
    [ error |-> "Error: boom",
      route |-> h.path,
      url |-> h.path \o h.query,
      user |-> h.user,
      excluded |-> IF h.adapter = "express" THEN ExpressExcludes(h)
                   ELSE FastifyExcludes(h),
      errorFilter |-> h.errorFilter,
      extractUser |-> h.extractUser,
      contextExtractor |-> h.contextExtractor ]

\* the event that sendError(error, context) receives from an adapter
Reported(context) ==
    [name |-> "Error", message |-> "boom", route |-> context.route, url |-> context.url]

\* the options the adapter hands to the logger's constructor
AdapterOptions(h) ==
    [errorFilter |-> h.errorFilter # "none", rateLimitWindow |-> 2, rateLimitMax |-> 2,
     deduplicate |-> TRUE, deduplicateWindow |-> 2, retryAttempts |-> 2]

-----------------------------------------------------------------------------
(* Actions *)

\* A sendError call that got past the filter consulted the rate limiter.
ReachedLimiter(c) == c.kind = "error" /\ c.stage \notin {"filtered", "filter-threw"}

\* Entry of history for such a call: when it was made, the identity of its
\* event, whether checkRateLimit admitted it, whether it was dropped as duplicate
LogEntry(c) ==
    [ id |-> c.id, at |-> c.at, hash |-> getErrorHash(c.ev),
      admitted |-> c.stage # "rate-limited", duplicate |-> c.stage = "duplicate" ]

\* What a call of a public method that ran up to its first pending promise
\* leaves in the logger.
Record(r) ==
    /\ errorCounts' = r.errorCounts
    /\ errorHashes' = r.errorHashes
    /\ made' = made + 1
    /\ log' = IF ReachedLimiter(r.call) THEN Append(log, LogEntry(r.call)) ELSE log
    /\ IF Settled(r.call)
       THEN settled' = r.call /\ UNCHANGED calls
       ELSE calls' = Append(calls, r.call) /\ UNCHANGED settled

\* A public method was called and ran up to its first pending promise.
Issue(r) ==
    /\ made < MaxCalls
    /\ Record(r)
    /\ UNCHANGED <<config, now, cleanupInterval, destroyed, input, output, closed>>

\* The caller awaits each call before it makes the next one.
Enter(r) == calls = <<>> /\ Issue(r)

\* the continuation of pending call k ran and left it as c
Continue(k, c) ==
    /\ IF Settled(c)
       THEN /\ settled' = c
            /\ calls' = SubSeq(calls, 1, k - 1) \o SubSeq(calls, k + 1, Len(calls))
       ELSE /\ calls' = [calls EXCEPT ![k] = c]
            /\ UNCHANGED settled
    /\ UNCHANGED <<config, now, errorCounts, errorHashes, cleanupInterval, log, made,
                   destroyed, input, output, closed>>

CallSendError ==
    \E ev \in Events, fmt \in FormatOutcomes :
    \E f \in (IF config.errorFilter THEN FilterOutcomes ELSE {"none"}) :
        Enter(sendError(ev, f, fmt))

CallSendCustomMessage ==
    \E fmt \in FormatOutcomes : Enter(sendCustomMessage(fmt))

\* sendError is called while earlier calls are still pending (not awaited)
CallSendErrorUnawaited ==
    \E ev \in Events, fmt \in FormatOutcomes :
    \E f \in (IF config.errorFilter THEN FilterOutcomes ELSE {"none"}) :
        Issue(sendError(ev, f, fmt))

CallSendRawMessage ==
    Enter(sendRawMessage)

\* a direct call of telegramClient.sendMessageWithRetry(message, {}, retries)
CallSendMessageWithRetry ==
    \E retries \in 1..MaxRetries :
        Enter(Left(errorCounts, errorHashes,
                   sendMessageWithRetry(At(NewCall("retry", "none", "none"), "delivery"),
                                        retries)))

\* a direct call of telegramClient.sendMessage(message)
CallSendMessage ==
    Enter(Left(errorCounts, errorHashes,
               Post(At(NewCall("send", "none", "none"), "delivery"))))

\* the pending axios.post of call k settles with outcome o
AxiosSettles(k, o) ==
    /\ calls[k].pc = "post"
    /\ LET c == [calls[k] EXCEPT !.outcomes = Append(@, o)]
           s == sendMessageSettles(o)
       IN  Continue(k, CASE c.kind = "raw" -> RawAfterAttempt(c, s)
                         [] c.kind = "send" -> SendAfterAttempt(c, s)
                         [] OTHER -> RetryAfterAttempt(c, s))

\* the pending axios.post of a call settles
Respond ==
    \E k \in DOMAIN calls, o \in TransportOutcomes : AxiosSettles(k, o)

\* the same, with the envelope of a 2xx answer observed
RespondEndpoint ==
    \E k \in DOMAIN calls, o \in EndpointOutcomes : AxiosSettles(k, o)

\* the backoff timer of a call fires
TimerFires ==
    \E k \in DOMAIN calls :
        /\ calls[k].pc = "wait"
        /\ Continue(k, RetryAfterWait(calls[k]))

\* destroy() is called and returns
CallDestroy ==
    /\ destroyed < MaxDestroys
    /\ cleanupInterval' = destroy(cleanupInterval)
    /\ destroyed' = destroyed + 1
    /\ UNCHANGED <<config, now, errorCounts, errorHashes, calls, settled, log, made,
                   input, output, closed>>

\* new TelegramErrorLogger(input) is called and returns or throws
CallConstructor ==
    /\ ~output.called
    /\ LET this == New(input)
       IN  /\ output' = this.output
           /\ config' = this.config
           /\ errorCounts' = this.errorCounts
           /\ errorHashes' = this.errorHashes
           /\ cleanupInterval' = this.cleanupInterval
    /\ UNCHANGED <<now, calls, settled, log, made, destroyed, input, closed>>

\* The values that request-body fields and headers hold.
BodyValues == {"", "hunter2", "letmein"}

HeaderValues == {"abc", "xyz"}

\* the request part of a context: every key of BodyKeys and HeaderKeys is there
Requests ==
    [ body : [{BodyKeys[i] : i \in DOMAIN BodyKeys} -> BodyValues],
      headers : [{HeaderKeys[i] : i \in DOMAIN HeaderKeys} -> HeaderValues] ]

\* the context of event ev with request r
Context(ev, r) == [route |-> ev.route, body |-> r.body, headers |-> r.headers]

\* errorFormatter.format is called for one error with two contexts
CallFormat ==
    /\ ~output.called
    /\ output' = Returns([a |-> format(input.ev, Context(input.ev, input.a)),
                          b |-> format(input.ev, Context(input.ev, input.b))])
    /\ UNCHANGED <<config, now, errorCounts, errorHashes, cleanupInterval, calls,
                   settled, log, made, destroyed, input, closed>>

\* Express calls the error middleware with input
CallMiddleware ==
    /\ ~output.called
    /\ output' = Returns(telegramErrorMiddleware(input))
    /\ UNCHANGED <<config, now, errorCounts, errorHashes, cleanupInterval, calls,
                   settled, log, made, destroyed, input, closed>>

\* the promise of the sendError call rejects after the middleware returned:
\* .catch(err => console.error(...))
SendErrorRejects ==
    /\ output.called
    /\ output.value.sent
    /\ input.sendError = "rejects"
    /\ output.value.logged = 0
    /\ output' = [output EXCEPT !.value.logged = @ + 1]
    /\ UNCHANGED <<config, now, errorCounts, errorHashes, cleanupInterval, calls,
                   settled, log, made, destroyed, input, closed>>

\* What the adapter's handler did is the output of the behaviour; when it
\* called logger.sendError(error, context), that call ran up to its first
\* pending promise within the same step.
Handled(did) ==
    /\ output' = Returns(did)
    /\ IF did.sent
       THEN /\ \E fmt \in FormatOutcomes :
                 \E f \in (IF config.errorFilter THEN FilterOutcomes ELSE {"none"}) :
                     Record(sendError(Reported(did.context), f, fmt))
            /\ UNCHANGED <<config, now, cleanupInterval, destroyed, input, closed>>
       ELSE UNCHANGED <<config, now, errorCounts, errorHashes, cleanupInterval, calls,
                        settled, log, made, destroyed, input, closed>>

\* Express calls the error middleware for a failed request
ExpressHandles ==
    /\ input.adapter = "express"
    /\ ~output.called
    /\ Handled(telegramErrorMiddleware(AsRequested(input)))

\* the promise of the middleware's sendError call rejected:
\* .catch(err => console.error(...))
ExpressCatches ==
    /\ input.adapter = "express"
    /\ output.called
    /\ output.value.sent
    /\ calls = <<>>
    /\ settled.pc = "rejected"
    /\ output.value.logged = 0
    /\ output' = [output EXCEPT !.value.logged = @ + 1]
    /\ UNCHANGED <<config, now, errorCounts, errorHashes, cleanupInterval, calls,
                   settled, log, made, destroyed, input, closed>>

\* Fastify runs the onError hook for a failed request
FastifyHandles ==
    /\ input.adapter = "fastify"
    /\ ~closed
    /\ ~output.called
    /\ Handled(onErrorHook(AsRequested(input)))

\* the sendError promise the onError hook awaits has settled: the hook resumes
FastifyHookResumes ==
    /\ input.adapter = "fastify"
    /\ output.called
    /\ output.value.sent
    /\ ~output.value.returned
    /\ calls = <<>>
    /\ output' = Returns(onErrorHookResumes(output.value, settled.pc = "rejected"))
    /\ UNCHANGED <<config, now, errorCounts, errorHashes, cleanupInterval, calls,
                   settled, log, made, destroyed, input, closed>>

\* fastify.close() runs the onClose hook
FastifyClose ==
    /\ input.adapter = "fastify"
    /\ ~closed
    /\ closed' = TRUE
    /\ cleanupInterval' = onClose(cleanupInterval)
    /\ destroyed' = destroyed + 1
    /\ UNCHANGED <<config, now, errorCounts, errorHashes, calls, settled, log, made,
                   input, output>>

\* the characters of the messages
Letters == <<"a", "b", "c", "\n">>

\* a message of n characters: the letters in turn, starting after the first shift
Message(n, shift) == [k \in 1..n |-> Letters[((k + shift) % Len(Letters)) + 1]]

\* the lengths of the messages: empty, short, and around the limit
MessageLengths ==
    {0, 1} \cup ((maxMessageLength - MaxOver)..(maxMessageLength + MaxOver))

Messages == {Message(n, shift) : n \in MessageLengths, shift \in {0, 1}}

\* the characters of a message in Telegram's HTML markup, as ErrorFormatter
\* writes its labels: the span <b>x</b>, repeated
MarkupLetters == <<"<", "b", ">", "x", "<", "/", "b", ">">>

\* a marked-up message of n characters that starts shift characters into a span
MarkupMessage(n, shift) ==
    [k \in 1..n |-> MarkupLetters[((k - 1 + shift) % Len(MarkupLetters)) + 1]]

\* marked-up messages longer than the limit, starting at the beginning of a
\* span (shift 0) or on its text or its closing tag
MarkupMessages ==
    { MarkupMessage(n, shift) :
        n \in (maxMessageLength + 1)..(maxMessageLength + MaxOver),
        shift \in {0, 3, 4, 5, 7} }

\* The options a caller passes: none, options of the formatter or of the
\* Telegram API, and options that name the keys of the payload.
CallerOptions ==
    { <<>>,
      [parseMode |-> "Markdown"],
      [disableWebPagePreview |-> FALSE],
      [chat_id |-> "-2002"],
      [text |-> Message(1, 0)],
      [chat_id |-> "-2002", text |-> Message(maxMessageLength + 1, 0)] }

\* A call of one of the three sending methods of a logger constructed with
\* chatId: the message (for sendError and sendCustomMessage, the message
\* their formatter returned) and the caller's options.
Sends ==
    [ method : {"sendError", "sendCustomMessage", "sendRawMessage"},
      chatId : {"-1001"},
      message : {Message(n, 0) :
                    n \in {1, maxMessageLength, maxMessageLength + 1,
                           maxMessageLength + MaxOver}},
      options : CallerOptions ]

\* the request that sendError issues: sendMessageWithRetry(formattedMessage, {}, ...)
RequestOfSendError ==
    /\ input.method = "sendError"
    /\ ~output.called
    /\ output' = Returns(axiosPost(payload(input.chatId, input.message, NoOptions)))
    /\ UNCHANGED <<config, now, errorCounts, errorHashes, cleanupInterval, calls,
                   settled, log, made, destroyed, input, closed>>

\* the request that sendCustomMessage issues: its options go to the
\* formatter, sendMessageWithRetry gets {}
RequestOfSendCustomMessage ==
    /\ input.method = "sendCustomMessage"
    /\ ~output.called
    /\ output' = Returns(axiosPost(payload(input.chatId, input.message, NoOptions)))
    /\ UNCHANGED <<config, now, errorCounts, errorHashes, cleanupInterval, calls,
                   settled, log, made, destroyed, input, closed>>

\* the request that sendRawMessage issues: sendMessage(message, options)
RequestOfSendRawMessage ==
    /\ input.method = "sendRawMessage"
    /\ ~output.called
    /\ output' = Returns(axiosPost(payload(input.chatId, input.message, input.options)))
    /\ UNCHANGED <<config, now, errorCounts, errorHashes, cleanupInterval, calls,
                   settled, log, made, destroyed, input, closed>>

\* Errors with their contexts: the attributes getErrorHash reads (names and
\* messages with and without the separator ':', route and url present or
\* not) and two it does not read (error.code, context.method).
HashedEvents ==
    [ name : {"Error", "TypeError", "Error:x"},
      message : {"", "boom", "x:boom"},
      route : {"", "/test"},
      url : {"", "/test", "/other"},
      code : {"", "E1"},
      method : {"GET", "POST"} ]

\* getErrorHash is called for two events
CallGetErrorHash ==
    /\ ~output.called
    /\ output' = Returns([a |-> getErrorHash(input.a), b |-> getErrorHash(input.b)])
    /\ UNCHANGED <<config, now, errorCounts, errorHashes, cleanupInterval, calls,
                   settled, log, made, destroyed, input, closed>>

\* truncateMessage(input) is called and returns
CallTruncateMessage ==
    /\ ~output.called
    /\ output' = Returns(truncateMessage(input))
    /\ UNCHANGED <<config, now, errorCounts, errorHashes, cleanupInterval, calls,
                   settled, log, made, destroyed, input, closed>>

\* the clock advances by one millisecond
Tick ==
    /\ now < MaxTime
    /\ now' = now + 1
    /\ UNCHANGED <<config, errorCounts, errorHashes, cleanupInterval, calls, settled,
                   log, made, destroyed, input, output, closed>>

\* the cleanup interval fires
Sweep ==
    /\ cleanupInterval
    /\ errorCounts' = cleanup.errorCounts
    /\ errorHashes' = cleanup.errorHashes
    /\ UNCHANGED <<config, now, cleanupInterval, calls, settled, log, made,
                   destroyed, input, output, closed>>

-----------------------------------------------------------------------------
(* Specifications *)

\* The state a constructor call with options raw leaves
Constructed(raw) ==
    /\ config = Constructor(raw)
    /\ now = 1
    /\ errorCounts = EmptyMap
    /\ errorHashes = EmptyMap
    /\ cleanupInterval = TRUE
    /\ calls = <<>>
    /\ settled = NoCall
    /\ log = <<>>
    /\ made = 0
    /\ destroyed = 0
    /\ closed = FALSE

\* no function has been called on its own
Idle == input = "none" /\ output = NotCalled

\* The logger after construction, used through its public methods.
Init == (\E raw \in RawConfigs : Constructed(raw)) /\ Idle

Next ==
    \/ CallSendError
    \/ CallSendCustomMessage
    \/ CallSendRawMessage
    \/ Respond
    \/ TimerFires
    \/ Tick
    \/ Sweep

Spec == Init /\ [][Next]_vars

\* The retry driver alone: direct calls of sendMessageWithRetry on the client
\* of a logger built with the two required options only.
\* the constructor options that give only the two required ones
RequiredOnly ==
    [errorFilter |-> FALSE, rateLimitWindow |-> 0, rateLimitMax |-> 0,
     deduplicate |-> FALSE, deduplicateWindow |-> 0, retryAttempts |-> 0]

InitRetry == Constructed(RequiredOnly) /\ Idle

NextRetry ==
    \/ CallSendMessageWithRetry
    \/ Respond
    \/ TimerFires

SpecRetry == InitRetry /\ [][NextRetry]_vars

\* Constructor options that differ in retryAttempts: negative, 0 or not given
\* (both falsy), and positive values; with and without an errorFilter.
AttemptOptions ==
    [errorFilter : BOOLEAN, rateLimitWindow : {0}, rateLimitMax : {0},
     deduplicate : {FALSE}, deduplicateWindow : {0}, retryAttempts : {-1, 0, 1, 2}]

\* A logger constructed with such options delivers errors and custom messages.
InitAttempts ==
    /\ input \in AttemptOptions
    /\ Constructed(input)
    /\ output = NotCalled

NextAttempts ==
    \/ CallSendError
    \/ CallSendCustomMessage
    \/ Respond
    \/ TimerFires

SpecAttempts == InitAttempts /\ [][NextAttempts]_vars

\* The same, where every transport call completes (with an answer, a failure
\* or a timeout) and every backoff timer fires.
SpecAttemptsFair == SpecAttempts /\ WF_vars(Respond) /\ WF_vars(TimerFires)

\* The request of one call of a sending method.
InitPayload ==
    /\ Constructed(RequiredOnly)
    /\ input \in Sends
    /\ output = NotCalled

NextPayload ==
    \/ RequestOfSendError
    \/ RequestOfSendCustomMessage
    \/ RequestOfSendRawMessage

SpecPayload == InitPayload /\ [][NextPayload]_vars

\* getErrorHash is called for a pair of events.
InitHash ==
    /\ Constructed(RequiredOnly)
    /\ input \in [a : HashedEvents, b : HashedEvents]
    /\ output = NotCalled

SpecHash == InitHash /\ [][CallGetErrorHash]_vars

\* Loggers whose deduplication window is longer than their rate-limit window
\* (the defaults are 5 minutes and 1 minute), so that an event can be a
\* duplicate of one the rate limiter has forgotten.
DuplicateOptions ==
    [errorFilter : {FALSE}, rateLimitWindow : {1}, rateLimitMax : {1, 2},
     deduplicate : {TRUE}, deduplicateWindow : {3}, retryAttempts : {1}]

InitDuplicates == (\E raw \in DuplicateOptions : Constructed(raw)) /\ Idle

NextDuplicates ==
    \/ CallSendError
    \/ Respond
    \/ Tick
    \/ Sweep

SpecDuplicates == InitDuplicates /\ [][NextDuplicates]_vars

\* A logger with capacity 1 and deduplication on, through which errors and
\* raw messages are sent.
RawOptions ==
    [errorFilter |-> FALSE, rateLimitWindow |-> 2, rateLimitMax |-> 1,
     deduplicate |-> TRUE, deduplicateWindow |-> 2, retryAttempts |-> 2]

InitRaw == Constructed(RawOptions) /\ Idle

NextRaw ==
    \/ CallSendError
    \/ CallSendRawMessage
    \/ Respond
    \/ TimerFires
    \/ Tick

SpecRaw == InitRaw /\ [][NextRaw]_vars

\* The client alone: direct calls of sendMessage and of sendMessageWithRetry.
NextClient ==
    \/ CallSendMessage
    \/ CallSendMessageWithRetry
    \/ RespondEndpoint
    \/ TimerFires

SpecClient == InitRetry /\ [][NextClient]_vars

\* sendError against an endpoint whose 2xx answers may say ok: false.
NextEndpoint ==
    \/ CallSendError
    \/ RespondEndpoint
    \/ TimerFires
    \/ Tick

SpecEndpoint == Init /\ [][NextEndpoint]_vars

\* The life of one logger with deduplication on, up to and after destroy().
LifecycleOptions ==
    [errorFilter |-> FALSE, rateLimitWindow |-> 2, rateLimitMax |-> 2,
     deduplicate |-> TRUE, deduplicateWindow |-> 2, retryAttempts |-> 2]

InitLifecycle == Constructed(LifecycleOptions) /\ Idle

NextLifecycle ==
    \/ CallSendError
    \/ Respond
    \/ TimerFires
    \/ Tick
    \/ Sweep
    \/ CallDestroy

SpecLifecycle == InitLifecycle /\ [][NextLifecycle]_vars

\* The same, with the interval firing again and again for as long as it is
\* scheduled.
SpecLifecycleFair == SpecLifecycle /\ WF_vars(Sweep)

\* The constructor alone: no logger exists yet, one is asked for.
InitConstruct ==
    /\ input \in ConstructorOptions
    /\ output = NotCalled
    /\ config = Undefined
    /\ errorCounts = Undefined
    /\ errorHashes = Undefined
    /\ cleanupInterval = FALSE
    /\ now = 1
    /\ calls = <<>>
    /\ settled = NoCall
    /\ log = <<>>
    /\ made = 0
    /\ destroyed = 0
    /\ closed = FALSE

SpecConstruct == InitConstruct /\ [][CallConstructor]_vars

\* sendError calls that the caller does not await: calls overlap.
\* The options of the loggers whose calls overlap: one attempt per delivery.
ConcurrentConfigs ==
    [ errorFilter : BOOLEAN,
      rateLimitWindow : {2},
      rateLimitMax : {2},
      deduplicate : BOOLEAN,
      deduplicateWindow : {3},
      retryAttempts : {1} ]

InitConcurrent == (\E raw \in ConcurrentConfigs : Constructed(raw)) /\ Idle

NextConcurrent ==
    \/ CallSendErrorUnawaited
    \/ Respond
    \/ Tick

SpecConcurrent == InitConcurrent /\ [][NextConcurrent]_vars

\* ErrorFormatter.format alone, called for one error with two request contexts.
InitFormat ==
    /\ Constructed(RequiredOnly)
    /\ input \in [ev : Events, a : Requests, b : Requests]
    /\ output = NotCalled

SpecFormat == InitFormat /\ [][CallFormat]_vars

\* The Express error middleware, called once for one failed request.
InitExpress ==
    /\ Constructed(RequiredOnly)
    /\ input \in Requested
    /\ output = NotCalled

NextExpress ==
    \/ CallMiddleware
    \/ SendErrorRejects

SpecExpress == InitExpress /\ [][NextExpress]_vars

\* Either adapter with its own logger handles one failed request; a Fastify
\* instance may close at any moment.
InitAdapters ==
    /\ input \in AdapterRequests
    /\ Constructed(AdapterOptions(input))
    /\ output = NotCalled

NextAdapters ==
    \/ ExpressHandles
    \/ ExpressCatches
    \/ FastifyHandles
    \/ FastifyHookResumes
    \/ FastifyClose
    \/ Respond
    \/ TimerFires
    \/ Tick
    \/ Sweep

SpecAdapters == InitAdapters /\ [][NextAdapters]_vars

\* truncateMessage alone, called once on a message of the client of a logger
\* built with the two required options only.
InitTruncate ==
    /\ Constructed(RequiredOnly)
    /\ input \in Messages
    /\ output = NotCalled

SpecTruncate == InitTruncate /\ [][CallTruncateMessage]_vars

\* truncateMessage is called once with a marked-up message over the limit
InitTruncateMarkup ==
    /\ Constructed(RequiredOnly)
    /\ input \in MarkupMessages
    /\ output = NotCalled

SpecTruncateMarkup == InitTruncateMarkup /\ [][CallTruncateMessage]_vars

-----------------------------------------------------------------------------
(* Properties *)

\* the calls in the state: the pending ones and the one that settled last
AllCalls == {calls[k] : k \in DOMAIN calls} \cup {settled}

\* the call made last
Newest == IF settled.id = made THEN settled ELSE calls[Len(calls)]

\* the admitted entries of the log before position k whose age at log[k].at
\* satisfies InWindow
AdmittedBefore(k, InWindow(_)) ==
    {j \in 1..(k - 1) : log[j].admitted /\ InWindow(log[k].at - log[j].at)}

AgeBelowWindow(age) == age < config.rateLimitWindow

AgeAtMostWindow(age) == age <= config.rateLimitWindow

\* C1: starting from an empty limiter, of the sendError calls that pass the
\* filter and all lie within one window, the first rateLimitMax are admitted
\* by the rate limiter and the next one is rejected; a rate-limited call
\* resolves to null without any HTTP request, and an admitted call that is
\* neither dropped as a duplicate nor stopped by a throwing formatter issues
\* a request.
C1_RateLimitCapacity ==
    /\ \A k \in DOMAIN log :
          (\A j \in 1..(k - 1) : AgeBelowWindow(log[k].at - log[j].at))
          => /\ (k <= config.rateLimitMax => log[k].admitted)
             /\ (k = config.rateLimitMax + 1 => ~log[k].admitted)
    /\ \A c \in AllCalls : \A k \in DOMAIN log :
          (c.kind = "error" /\ log[k].id = c.id)
          => /\ ~log[k].admitted
                => c.stage = "rate-limited" /\ c.pc = "done" /\ c.result = Null
                   /\ c.posts = 0
             /\ (log[k].admitted /\ ~log[k].duplicate /\ c.stage # "format-threw")
                => c.stage = "delivery" /\ c.posts >= 1

\* three sendError calls within one window with rateLimitMax = 2: two admitted,
\* the third dropped without a request
C1_Witness ==
    /\ config.rateLimitMax = 2
    /\ Len(log) = 3
    /\ log[3].at - log[1].at < config.rateLimitWindow
    /\ log[1].admitted /\ log[2].admitted /\ ~log[3].admitted
    /\ settled.id = log[3].id /\ settled.posts = 0 /\ settled.result = Null

\* C2 as stated: an entry counts toward the capacity exactly when its age is
\* strictly less than the window, so a call made exactly rateLimitWindow ms
\* after the admitted events is admitted again.
C2_CountsWhenAgeBelowWindow ==
    \A k \in DOMAIN log :
        log[k].admitted
        <=> Cardinality(AdmittedBefore(k, AgeBelowWindow)) < config.rateLimitMax

\* C2 amended: an entry counts toward the capacity exactly when its age is at
\* most the window: a call made exactly rateLimitWindow ms after rateLimitMax
\* admitted events is still rejected, a call made later is admitted again.
C2_CountsWhenAgeAtMostWindow ==
    \A k \in DOMAIN log :
        log[k].admitted
        <=> Cardinality(AdmittedBefore(k, AgeAtMostWindow)) < config.rateLimitMax

\* admitted at t, rejected at t + W, admitted again at t + W + 1
C2_Witness ==
    /\ config.rateLimitMax = 1
    /\ Len(log) = 3
    /\ log[1].admitted
    /\ log[2].at = log[1].at + config.rateLimitWindow /\ ~log[2].admitted
    /\ log[3].at = log[1].at + config.rateLimitWindow + 1 /\ log[3].admitted

\* the earlier occurrences of the identity of log[k] that the deduplicator
\* let through (and recorded)
RecordedBefore(k) ==
    {j \in 1..(k - 1) :
        log[j].hash = log[k].hash /\ log[j].admitted /\ ~log[j].duplicate}

\* C3: with deduplicate enabled, a sendError that reaches the deduplicator is
\* dropped exactly when an event of the same identity was let through less
\* than deduplicateWindow ms earlier; a dropped call resolves to null without
\* any HTTP request, and a call with a gap >= deduplicateWindow or a new
\* identity goes on to formatting and delivery.
C3_Deduplication ==
    /\ \A k \in DOMAIN log :
          IF config.deduplicate /\ log[k].admitted
          THEN log[k].duplicate
               <=> \E j \in RecordedBefore(k) :
                      log[k].at - log[j].at < config.deduplicateWindow
          ELSE ~log[k].duplicate
    /\ \A c \in AllCalls : \A k \in DOMAIN log :
          (c.kind = "error" /\ log[k].id = c.id)
          => IF log[k].duplicate
             THEN c.stage = "duplicate" /\ c.pc = "done" /\ c.result = Null
                  /\ c.posts = 0
             ELSE log[k].admitted
                  => /\ c.stage \in {"format-threw", "delivery"}
                     /\ c.stage = "delivery" => c.posts >= 1

\* the same identity three times: let through, dropped within the window, let
\* through again once deduplicateWindow ms have passed since the first
C3_Witness ==
    /\ config.deduplicate
    /\ Len(log) = 3
    /\ log[1].hash = log[2].hash /\ log[2].hash = log[3].hash
    /\ log[1].admitted /\ ~log[1].duplicate
    /\ log[2].duplicate
    /\ log[3].at - log[1].at >= config.deduplicateWindow
    /\ log[3].admitted /\ ~log[3].duplicate
    /\ Newest.id = log[3].id /\ Newest.posts >= 1

\* C4: a sendError call that the errorFilter rejects resolves to null, issues
\* no HTTP request and leaves errorCounts and errorHashes as they were.
C4_FilteredLeavesNoTrace ==
    [][ (made' = made + 1 /\ Newest'.filter = "reject")
        => /\ Newest'.stage = "filtered"
           /\ Newest'.pc = "done" /\ Newest'.result = Null /\ Newest'.posts = 0
           /\ errorCounts' = errorCounts
           /\ errorHashes' = errorHashes
           /\ log' = log ]_vars

\* an event was filtered out while both maps held entries
C4_Witness ==
    /\ settled.stage = "filtered"
    /\ settled.id = made
    /\ DOMAIN errorCounts # {}
    /\ DOMAIN errorHashes # {}

\* C5: a sendError whose errorFilter throws is treated as passing the filter:
\* it goes on to the rate limiter.
C5_ThrowingFilterPasses ==
    \A c \in AllCalls :
        (c.kind = "error" /\ c.filter \in {"Error", Nullish})
        => c.stage \in {"rate-limited", "duplicate", "format-threw", "delivery"}

\* C6: a sendCustomMessage call whose message is formatted issues an HTTP
\* request whatever the limiter and the deduplicator hold, and no
\* sendCustomMessage call changes errorCounts or errorHashes.
C6_CustomBypassesThrottling ==
    [][ (made' = made + 1 /\ Newest'.kind = "custom")
        => /\ errorCounts' = errorCounts
           /\ errorHashes' = errorHashes
           /\ Newest'.stage \in {"format-threw", "delivery"}
           /\ Newest'.stage = "delivery" => Newest'.posts >= 1 ]_vars

\* a custom message was delivered while the limiter, with rateLimitMax = 1,
\* was at capacity
C6_Witness ==
    /\ config.rateLimitMax = 1
    /\ settled.kind = "custom" /\ settled.result = Data
    /\ \E j \in DOMAIN log :
          /\ log[j].admitted /\ log[j].id < settled.id
          /\ settled.at - log[j].at <= config.rateLimitWindow
    /\ Total(errorCounts) >= 1

\* C7: the promise of sendError, sendCustomMessage and sendRawMessage never
\* rejects.
C7_NeverRejects == \A c \in AllCalls : c.pc # "rejected"

\* the delays 1000, 2000, ... of n backoff waits
ExpectedWaits(n) == [k \in 1..n |-> (2 ^ (k - 1)) * 1000]

\* C8: between two consecutive attempts of sendMessageWithRetry the driver
\* has waited 2^i seconds after failed attempt i, and it has not waited after
\* the last attempt.
C8_BackoffBetweenAttempts ==
    \A c \in AllCalls :
        (c.kind = "retry" /\ c.pc \in {"post", "done"})
        => c.waits = ExpectedWaits(c.posts - 1)

\* C9: sendMessageWithRetry never rejects, issues at most retries requests and
\* none after a success; when it has resolved, the number of requests is the
\* index of the first successful attempt and the result is that answer, or
\* the number is retries and the result null when every attempt failed.
C9_AttemptsUntilFirstSuccess ==
    \A c \in AllCalls :
        c.kind = "retry"
        => /\ c.pc # "rejected"
           /\ c.posts <= c.retries
           /\ Len(c.outcomes) \in {c.posts - 1, c.posts}
           /\ \A k \in 1..(Len(c.outcomes) - 1) : c.outcomes[k] # Data
           /\ c.pc = "done"
              => IF \E k \in DOMAIN c.outcomes : c.outcomes[k] = Data
                 THEN c.result = Data /\ c.outcomes[c.posts] = Data
                 ELSE c.result = Null /\ c.posts = c.retries

\* with retries = 3 the second attempt succeeded and no third request was made
C9_Witness ==
    /\ settled.kind = "retry"
    /\ settled.retries = 3
    /\ settled.outcomes = <<NetworkError, Data>>
    /\ settled.posts = 2
    /\ settled.result = Data

\* C10: a delivery that failed resolves to a result that holds the cause of
\* the last failed attempt.
C10_FailureCarriesCause ==
    \A c \in AllCalls :
        (c.pc = "done" /\ c.outcomes # <<>> /\ c.outcomes[Len(c.outcomes)] # Data)
        => c.result = c.outcomes[Len(c.outcomes)]

\* C11: a call of sendMessage issues exactly one HTTP request: the request is
\* out when the call returns its promise and no second one follows, whatever
\* the answer; the promise never rejects when the request resolves or fails
\* with an Error (network error, non-2xx, timeout): it resolves to the body of
\* the answer, or to null.
C11_OneRequestNoThrow ==
    \A c \in AllCalls :
        c.kind = "send"
        => /\ c.posts = 1
           /\ Len(c.outcomes) <= 1
           /\ (c.pc = "post") <=> (c.outcomes = <<>>)
           /\ \A k \in DOMAIN c.outcomes :
                 HasMessage(c.outcomes[k])
                 => /\ c.pc = "done"
                    /\ c.result = IF c.outcomes[k] = NetworkError
                                  THEN Null ELSE c.outcomes[k]

\* a sendMessage call whose request failed with an Error resolved to null after
\* that one request
C11_Witness ==
    /\ settled.kind = "send"
    /\ settled.outcomes = <<NetworkError>>
    /\ settled.posts = 1
    /\ settled.pc = "done" /\ settled.result = Null

\* C12: an attempt that the endpoint answers with an envelope that is not
\* ok: true is a failed attempt: the driver makes the next attempt while
\* attempts are left, and a sendError none of whose attempts was answered
\* ok: true resolves to null.
C12_NotOkIsFailure ==
    \A c \in AllCalls :
        c.kind = "error"
        => /\ \A k \in DOMAIN c.outcomes :
                 (c.outcomes[k] = NotOk /\ k < c.retries) => c.posts > k
           /\ (c.pc = "done" /\ \A k \in DOMAIN c.outcomes : c.outcomes[k] # Data)
              => c.result = Null

\* the truncation marker
Marker ==
    << ".", ".", ".", " ", "(", "m", "e", "s", "s", "a", "g", "e", " ",
       "t", "r", "u", "n", "c", "a", "t", "e", "d", ")" >>

\* s ends with t
EndsWith(s, t) ==
    Len(s) >= Len(t) /\ SubSeq(s, Len(s) - Len(t) + 1, Len(s)) = t

\* C13: truncateMessage returns a message of at most 4096 characters as it
\* is; of a longer message it returns at most 4096 characters: a prefix of
\* the message, then the truncation notice, which is two newlines and the
\* marker '... (message truncated)'.
C13_TruncateMessage ==
    output.called
    => LET message == input
           result == output.value
           k == Len(result) - Len(TruncationNotice)
       IN  IF Len(message) <= 4096
           THEN result = message
           ELSE /\ Len(result) <= 4096
                /\ k >= 0
                /\ SubSeq(result, 1, k) = SubSeq(message, 1, k)
                /\ SubSeq(result, k + 1, Len(result)) = TruncationNotice
                /\ TruncationNotice = <<"\n", "\n">> \o Marker
                /\ EndsWith(result, Marker)

\* a message one character over the limit came back cut, with the marker
C13_Witness ==
    /\ output.called
    /\ Len(input) = 4097
    /\ Len(output.value) = 4096
    /\ output.value # input
    /\ EndsWith(output.value, Marker)

\* C14: once destroy() has returned the interval is not scheduled and no sweep
\* runs: outside the sendError calls nothing removes an entry of errorCounts
\* or errorHashes any more; a further destroy() call returns as well and
\* changes nothing.
C14_DestroyStopsSweep ==
    [][ /\ destroyed > 0 => ~cleanupInterval /\ ~cleanupInterval'
        /\ (destroyed > 0 /\ made' = made)
           => errorCounts' = errorCounts /\ errorHashes' = errorHashes
        /\ (destroyed > 0 /\ destroyed' = destroyed + 1)
           => UNCHANGED <<config, now, errorCounts, errorHashes, cleanupInterval,
                          calls, settled, log, made>> ]_vars

\* destroy() was called twice, and entries old enough for the sweep to remove
\* are still in both maps
C14_Witness ==
    /\ destroyed = 2
    /\ ~cleanupInterval
    /\ \E ts \in DOMAIN errorCounts : ts < now - config.rateLimitWindow
    /\ \E h \in DOMAIN errorHashes : errorHashes[h] < now - config.deduplicateWindow

\* C15: destroy() leaves errorCounts and errorHashes empty.
C15_DestroyReleasesState ==
    [][ destroyed' = destroyed + 1
        => errorCounts' = EmptyMap /\ errorHashes' = EmptyMap ]_vars

\* C16: new TelegramErrorLogger(options) throws exactly when botToken or
\* chatId is missing, with the message that names the missing option, and
\* then no interval is scheduled and neither errorCounts nor errorHashes
\* exists; otherwise it returns a logger with both maps empty and the
\* interval scheduled.
C16_InvalidConstruction ==
    output.called
    => IF input.botToken = "" \/ input.chatId = ""
       THEN /\ output.threw
            /\ output.value = IF input.botToken = ""
                              THEN "Telegram bot token is required"
                              ELSE "Telegram chat ID is required"
            /\ ~cleanupInterval
            /\ errorCounts = Undefined
            /\ errorHashes = Undefined
       ELSE /\ ~output.threw
            /\ cleanupInterval
            /\ errorCounts = EmptyMap
            /\ errorHashes = EmptyMap

\* the constructor threw for a missing chatId, with every other option given
C16_Witness ==
    /\ output.called /\ output.threw
    /\ input.botToken # "" /\ input.chatId = ""
    /\ input.deduplicate /\ input.rateLimitMax = 2
    /\ ~cleanupInterval

\* C17: a sendError call always resolves, and it resolves to a result other
\* than null exactly when the event passed the filter, was admitted by the
\* rate limiter, was not dropped as a duplicate and one of its at most
\* retryAttempts requests was answered ok: true; that result is the answer.
C17_ResultIffDelivered ==
    \A c \in AllCalls :
        (c.kind = "error" /\ Settled(c))
        => /\ c.pc = "done"
           /\ c.posts <= config.retryAttempts
           /\ c.result # Null
              <=> /\ c.filter \in {"none", "pass"}
                  /\ \E k \in DOMAIN log :
                        log[k].id = c.id /\ log[k].admitted /\ ~log[k].duplicate
                  /\ \E k \in DOMAIN c.outcomes : c.outcomes[k] = Data
           /\ c.result # Null => c.result = Data

\* the sendError calls that are pending, all of them in delivery
Pending == {calls[k] : k \in DOMAIN calls}

\* C18: when sendError calls overlap, each call takes and records its filter,
\* rate-limit and dedup decisions in the step in which it is made, and no
\* continuation touches the limiter or the deduplicator. So the decisions are
\* those of a sequential run: a call is admitted exactly when fewer than
\* rateLimitMax admitted calls lie within the window before it, an admitted
\* call is a duplicate exactly when its identity was let through less than
\* deduplicateWindow ms before; a pending call has issued its request; at no
\* time more than rateLimitMax calls of one window, or with deduplicate two
\* calls of one identity and one dedup window, are at the transport together.
C18_OverlappingCallsDecideAtomically ==
    /\ [][ /\ made' = made
              => errorCounts' = errorCounts /\ errorHashes' = errorHashes /\ log' = log
           /\ made' = made + 1
              => /\ Newest'.id = made'
                 /\ Settled(Newest') \/ (Newest'.stage = "delivery" /\ Newest'.posts = 1)
                 /\ Len(log') = Len(log) + (IF ReachedLimiter(Newest') THEN 1 ELSE 0)
         ]_vars
    /\ [](\A k \in DOMAIN log :
            /\ log[k].admitted
               <=> Cardinality(AdmittedBefore(k, AgeAtMostWindow)) < config.rateLimitMax
            /\ log[k].duplicate
               <=> /\ config.deduplicate /\ log[k].admitted
                   /\ \E j \in RecordedBefore(k) :
                         log[k].at - log[j].at < config.deduplicateWindow)
    /\ [](\A c \in Pending :
            /\ c.stage = "delivery" /\ c.posts >= 1
            /\ \E k \in DOMAIN log :
                  log[k].id = c.id /\ log[k].admitted /\ ~log[k].duplicate
            /\ Cardinality({d \in Pending :
                   d.at <= c.at /\ c.at - d.at <= config.rateLimitWindow})
               <= config.rateLimitMax
            /\ config.deduplicate
               => \A d \in Pending :
                     ( /\ getErrorHash(d.ev) = getErrorHash(c.ev)
                       /\ d.at <= c.at
                       /\ c.at - d.at < config.deduplicateWindow )
                     => d = c)

\* with rateLimitMax = 2 three calls were made at the same instant without
\* awaiting: two are at the transport together, the third resolved to null
\* without a request
C18_Witness ==
    /\ config.rateLimitMax = 2
    /\ made = 3
    /\ Len(calls) = 2
    /\ calls[1].pc = "post" /\ calls[2].pc = "post"
    /\ calls[1].at = calls[2].at
    /\ settled.id = 3 /\ settled.at = calls[1].at
    /\ settled.stage = "rate-limited" /\ settled.result = Null /\ settled.posts = 0

\* the names the claim lists
ListedFields ==
    {"password", "pwd", "secret", "token", "apiKey", "api_key", "authorization"}

ListedHeaders == {"authorization", "cookie", "x-api-key", "x-auth-token"}

\* the value shown for key in the line of the message that starts with label
Shown(message, label, key) ==
    LET line == CHOOSE l \in {message[i] : i \in DOMAIN message} : l[1] = label
        pair == CHOOSE p \in {line[2][i] : i \in DOMAIN line[2]} : p[1] = key
    IN  pair[2]

\* C19: the message shows [REDACTED] for every listed body field and header,
\* and two contexts that agree on everything but the values of listed fields
\* and headers give the same message.
C19_ListedValuesRedacted ==
    output.called
    => /\ \A f \in DOMAIN input.a.body \cap ListedFields :
             Shown(output.value.a, "Body:", f) = Redacted
       /\ \A h \in DOMAIN input.a.headers \cap ListedHeaders :
             Shown(output.value.a, "Headers:", h) = Redacted
       /\ ( /\ \A f \in DOMAIN input.a.body \ ListedFields :
                  input.a.body[f] = input.b.body[f]
            /\ \A h \in DOMAIN input.a.headers \ ListedHeaders :
                  input.a.headers[h] = input.b.headers[h] )
          => output.value.a = output.value.b

\* C20: on every path (excluded route, error rejected by errorFilter, error
\* handed to sendError, a hook throwing, the promise of sendError rejecting
\* later) the Express middleware has called next exactly once when it
\* returns, with the error it was given, and never calls it again.
C20_NextExactlyOnce ==
    output.called
    => /\ output.value.returned
       /\ output.value.next = <<input.error>>
       /\ output.value.sent
          <=> /\ ~input.excluded
              /\ input.errorFilter \in {"none", "pass"}

\* the errorFilter hook threw null on a route that is not excluded: the
\* middleware logged it and passed the error on
C20_Witness ==
    /\ output.called
    /\ ~input.excluded /\ input.errorFilter = Nullish
    /\ output.value.logged = 1 /\ ~output.value.sent
    /\ output.value.next = <<input.error>>

-----------------------------------------------------------------------------
(* Framework adapters *)

\* the adapter's handler ran and handed the error to logger.sendError
Sent == output.called /\ output.value.sent

\* the adapter's own checks let the error through: the request is not on a
\* route of excludeRoutes and the errorFilter, if any, accepted the error
LetThrough ==
    /\ input.path \notin input.excludeRoutes
    /\ input.errorFilter \in {"none", "pass"}

\* C21: both adapters are fire-and-forget: while the delivery that the
\* handler's sendError call started is still in flight (a request or a backoff
\* wait pending), the Express middleware has called next(error) and returned,
\* and the Fastify onError hook has completed.
C21_FireAndForget ==
    (Sent /\ calls # <<>>) =>
        /\ output.value.returned
        /\ input.adapter = "express" => Len(output.value.next) = 1

\* C22: an error on a route listed in excludeRoutes never reaches sendError
\* through either adapter (no call made, nothing in flight, no rate-limit or
\* dedup state written); an error on any other route that the adapter's filter
\* accepts is handed to sendError exactly once.
C22_ExcludedRoutesNeverSent ==
    output.called =>
        IF input.path \in input.excludeRoutes
        THEN /\ ~output.value.sent
             /\ made = 0
             /\ calls = <<>>
             /\ DOMAIN errorCounts = {}
             /\ DOMAIN errorHashes = {}
        ELSE LetThrough => (output.value.sent /\ made = 1)

\* C23: once the Fastify instance has closed, destroy() has been called on
\* its logger and the cleanup interval is cleared, so no step after the close
\* that is not a sendError call changes errorCounts or errorHashes.
C23_CloseDestroysLogger ==
    [][closed' =>
        /\ ~cleanupInterval'
        /\ destroyed' >= 1
        /\ (closed /\ made' = made) =>
              (errorCounts' = errorCounts /\ errorHashes' = errorHashes)]_vars

\* the instance closed and later the logger still holds a rate entry older
\* than its window, which a sweep would have evicted
C23_Witness ==
    /\ closed
    /\ \E ts \in DOMAIN errorCounts : ts < now - config.rateLimitWindow

\* C24: an exception of extractUser or of contextExtractor is caught by the
\* adapter and ignored: the error is still handed to sendError with the url
\* and the route of the request and with what the other hook returned, and
\* with nothing for the hook that threw.
C24_HookExceptionsIgnored ==
    (output.called /\ ~AsRequested(input).excluded /\ input.errorFilter \in {"none", "pass"}
        /\ "Error" \in {input.extractUser, input.contextExtractor}) =>
        /\ output.value.sent
        /\ made = 1
        /\ output.value.context.url = input.path \o input.query
        /\ output.value.context.route = input.path
        /\ input.extractUser = "Error" => output.value.context.user = Undefined
        /\ input.extractUser = "ok" => output.value.context.user = "user"
        /\ input.contextExtractor = "Error" => output.value.context.custom = Undefined
        /\ input.contextExtractor = "ok" => output.value.context.custom = "custom"

\* extractUser threw on a request that carries a user, contextExtractor
\* returned, and the error was delivered
C24_Witness ==
    /\ Sent
    /\ input.extractUser = "Error"
    /\ input.user
    /\ input.contextExtractor = "ok"
    /\ settled.stage = "delivery"
    /\ settled.result = Data

-----------------------------------------------------------------------------
(* Truncation of marked-up messages *)

\* s ends inside a tag: its last "<" has no ">" after it
EndsInsideTag(s) ==
    \E i \in DOMAIN s :
        /\ s[i] = "<"
        /\ \A j \in (i + 1)..Len(s) : s[j] # ">"

\* the opening tags of s that are complete, and its closing tags
OpeningTags(s) == {i \in 1..(Len(s) - 2) : s[i] = "<" /\ s[i + 1] # "/" /\ s[i + 2] = ">"}
ClosingTags(s) == {i \in 1..(Len(s) - 3) : s[i] = "<" /\ s[i + 1] = "/" /\ s[i + 3] = ">"}

\* s ends inside a span: a tag was opened and not closed
EndsInsideSpan(s) == Cardinality(OpeningTags(s)) > Cardinality(ClosingTags(s))

\* what truncateMessage kept of the message: the result without the notice
KeptPrefix == SubSeq(output.value, 1, Len(output.value) - Len(TruncationNotice))

\* C25: of a message longer than the limit truncateMessage keeps a prefix
\* that does not end inside an HTML tag nor inside an open markup span, so the
\* truncation notice is appended outside any markup span.
C25_TruncationOutsideMarkup ==
    (output.called /\ Len(input) > maxMessageLength) =>
        /\ ~EndsInsideTag(KeptPrefix)
        /\ ~EndsInsideSpan(KeptPrefix)

-----------------------------------------------------------------------------
(* Rate limiter under sweeps *)

\* the events the rate limiter admitted with a timestamp in [a, a + rateLimitWindow]
AdmittedInSpan(a) ==
    {k \in DOMAIN log :
        log[k].admitted /\ log[k].at >= a /\ log[k].at <= a + config.rateLimitWindow}

\* C26: whatever the interleaving of sendError calls, sweeps and clock
\* advances, no time span of length rateLimitWindow holds more than
\* rateLimitMax events admitted by the rate limiter, and the counts stored in
\* errorCounts add up to at most rateLimitMax.
C26_SpanWithinCapacity ==
    /\ \A a \in 0..now : Cardinality(AdmittedInSpan(a)) <= config.rateLimitMax
    /\ Total(errorCounts) <= config.rateLimitMax

\* three events admitted with capacity 2: the third exactly rateLimitWindow
\* after the second, when the entry of the first had left the window
C26_Witness ==
    /\ Len(log) = 3
    /\ \A k \in DOMAIN log : log[k].admitted
    /\ log[3].at - log[2].at = config.rateLimitWindow
    /\ log[3].at - log[1].at > config.rateLimitWindow
    /\ Total(errorCounts) = config.rateLimitMax

-----------------------------------------------------------------------------
(* Order of the stages of sendError *)

\* the errorFilter hook, if configured, accepted the event of call c
FilterPassed(c) == ~config.errorFilter \/ c.filter = "pass"

\* C27: in every sendError call the stages run in the order filter, rate
\* limiter, deduplicator, formatter, retry driver. The rate limiter is
\* consulted (the call enters the log) exactly when the filter passed, and a
\* call the filter stopped changes neither errorCounts nor errorHashes; the
\* deduplicator is consulted only when the rate limiter admitted the event and
\* deduplicate is enabled (otherwise errorHashes is unchanged and the call is
\* never dropped as a duplicate); the formatter runs after the deduplicator
\* recorded the event; and a request is issued exactly when no earlier stage
\* stopped the event.
C27_StageOrder ==
    [][made' = made + 1 =>
        LET c == Newest'
            consulted == Len(log') = Len(log) + 1
            entry == log'[Len(log')]
        IN  c.kind = "error" =>
            /\ consulted <=> FilterPassed(c)
            /\ ~consulted =>
                  /\ log' = log
                  /\ c.stage \in {"filtered", "filter-threw"}
                  /\ errorCounts' = errorCounts
                  /\ errorHashes' = errorHashes
            /\ consulted =>
                  /\ entry.id = c.id
                  /\ c.stage \in {"rate-limited", "duplicate", "format-threw", "delivery"}
                  /\ entry.admitted <=> c.stage # "rate-limited"
                  /\ (~entry.admitted \/ ~config.deduplicate) =>
                        (errorHashes' = errorHashes /\ c.stage # "duplicate")
                  /\ (c.stage \in {"format-threw", "delivery"} /\ config.deduplicate) =>
                        (getErrorHash(c.ev) \in DOMAIN errorHashes'
                         /\ errorHashes'[getErrorHash(c.ev)] = now)
            /\ c.posts >= 1 <=> c.stage = "delivery"
            /\ c.posts >= 1 => (FilterPassed(c) /\ consulted /\ entry.admitted /\ ~entry.duplicate)
    ]_vars

\* three calls: the filter stopped the first, which never reached the rate
\* limiter; the second was delivered; the third passed the filter and the
\* rate limiter and was stopped by the deduplicator without a request
C27_Witness ==
    /\ config.errorFilter /\ config.deduplicate
    /\ made = 3
    /\ Len(log) = 2
    /\ log[1].id = 2 /\ log[1].admitted /\ ~log[1].duplicate
    /\ log[2].id = 3 /\ log[2].admitted /\ log[2].duplicate
    /\ settled.stage = "duplicate"
    /\ settled.filter = "pass"
    /\ settled.posts = 0

-----------------------------------------------------------------------------
(* Calls that are dropped leave the windows alone *)

\* the entries of errorCounts that are within the rate-limit window at now
InWindow(ec) == {ts \in DOMAIN ec : ts >= now - config.rateLimitWindow}

\* C28: a sendError call that the rate limiter rejects records nothing: the
\* entries of errorCounts within the window and their counts are as before and
\* no entry is added (only entries older than the window may be gone); so
\* whether a later call is admitted depends on the admitted events alone and
\* rejected calls never delay the next admission.
C28_RejectedCheckRecordsNothing ==
    /\ [][(made' = made + 1 /\ Newest'.stage = "rate-limited") =>
            /\ DOMAIN errorCounts' \subseteq DOMAIN errorCounts
            /\ InWindow(errorCounts) \subseteq DOMAIN errorCounts'
            /\ \A ts \in DOMAIN errorCounts' : errorCounts'[ts] = errorCounts[ts]
            /\ Total(errorCounts') <= Total(errorCounts)
        ]_vars
    /\ [](\A k \in DOMAIN log :
            Cardinality(AdmittedBefore(k, AgeAtMostWindow)) < config.rateLimitMax
            => log[k].admitted)

\* capacity 1: admitted at 1, rejected inside the window at 2, admitted at 4,
\* the first moment the event of 1 is out of the window
C28_Witness ==
    /\ config.rateLimitMax = 1
    /\ Len(log) = 3
    /\ log[1].admitted /\ log[1].at = 1
    /\ ~log[2].admitted /\ log[2].at = 2
    /\ log[3].admitted /\ log[3].at = 1 + config.rateLimitWindow + 1

\* C29: a sendError call dropped as a duplicate leaves errorHashes as it is:
\* the timestamp of the identity is still that of the last occurrence that
\* was let through, and the deduplication window is measured from that one.
C29_DuplicateKeepsTimestamp ==
    /\ [][(made' = made + 1 /\ Newest'.stage = "duplicate") =>
            errorHashes' = errorHashes]_vars
    /\ [](\A k \in DOMAIN log :
            (log[k].admitted /\ config.deduplicate) =>
                (log[k].duplicate <=>
                    \E j \in RecordedBefore(k) :
                        log[k].at - log[j].at < config.deduplicateWindow))

\* one identity three times: let through at t, dropped as a duplicate inside
\* the window, and let through again deduplicateWindow after t although the
\* dropped occurrence is more recent than that
C29_Witness ==
    /\ config.deduplicate
    /\ Len(log) = 3
    /\ \A k \in DOMAIN log : log[k].admitted /\ log[k].hash = log[1].hash
    /\ ~log[1].duplicate /\ log[2].duplicate /\ ~log[3].duplicate
    /\ log[2].at > log[1].at
    /\ log[3].at - log[1].at = config.deduplicateWindow
    /\ log[3].at - log[2].at < config.deduplicateWindow

-----------------------------------------------------------------------------
(* Eviction by the periodic sweep *)

\* the rate entries older than rateLimitWindow, the dedup records older than
\* deduplicateWindow
StaleCounts(ec) == {ts \in DOMAIN ec : now - ts > config.rateLimitWindow}
StaleHashes(eh) == {h \in DOMAIN eh : now - eh[h] > config.deduplicateWindow}

\* C30: as long as the interval is scheduled and keeps firing, entries of
\* errorCounts older than rateLimitWindow and records of errorHashes older
\* than deduplicateWindow do not stay: a state without any of them follows,
\* unless destroy() cleared the interval, and no sendError call is needed for
\* that; and the state right after a sweep that removed something holds no
\* entry older than its window.
C30_StaleEntriesEvicted ==
    /\ (StaleCounts(errorCounts) # {} \/ StaleHashes(errorHashes) # {})
          ~> (\/ (StaleCounts(errorCounts) = {} /\ StaleHashes(errorHashes) = {})
              \/ ~cleanupInterval)
    /\ [][(made' = made /\ <<errorCounts, errorHashes>>' # <<errorCounts, errorHashes>>) =>
            /\ now' = now
            /\ StaleCounts(errorCounts') = {}
            /\ StaleHashes(errorHashes') = {}
            /\ DOMAIN errorCounts' = DOMAIN errorCounts \ StaleCounts(errorCounts)
            /\ DOMAIN errorHashes' = DOMAIN errorHashes \ StaleHashes(errorHashes)
        ]_vars

\* a sweep has emptied both maps of a logger that was never destroyed, after
\* the only call made had aged out of both windows
C30_Witness ==
    /\ destroyed = 0
    /\ cleanupInterval
    /\ made = 1
    /\ Len(log) = 1
    /\ log[1].admitted
    /\ now - log[1].at > config.rateLimitWindow
    /\ now - log[1].at > config.deduplicateWindow
    /\ DOMAIN errorCounts = {}
    /\ DOMAIN errorHashes = {}

-----------------------------------------------------------------------------
(* Number of attempts *)

\* C31: a delivery makes at least one and at most retryAttempts transport
\* attempts: whatever retryAttempts was configured (0 and negative numbers
\* included) the effective number of attempts is at least 1, and it is 3 when
\* retryAttempts is not given.
C31_AtLeastOneAttempt ==
    /\ input.retryAttempts = 0 => config.retryAttempts = 3
    /\ \A c \in AllCalls :
          (c.kind \in {"error", "custom"} /\ c.stage = "delivery") =>
              /\ c.posts >= 1
              /\ c.posts <= (IF config.retryAttempts < 1 THEN 1 ELSE config.retryAttempts)

-----------------------------------------------------------------------------
(* The outbound request *)

\* C32: the request that sendError, sendCustomMessage or sendRawMessage
\* issues is one POST whose body has chat_id equal to the chatId the logger
\* was constructed with and text equal to the truncated message, of at most
\* 4096 characters, whatever options the caller passes.
C32_PayloadTargetAndText ==
    output.called =>
        /\ output.value.method = "POST"
        /\ output.value.body.chat_id = input.chatId
        /\ output.value.body.text = truncateMessage(input.message)
        /\ Len(output.value.body.text) <= maxMessageLength

-----------------------------------------------------------------------------
(* Termination *)

\* the number of turns of the retry loop that retryAttempts allows
LoopTurns(retries) == IF retries < 0 THEN 0 ELSE retries

\* C33: provided every transport call completes and every backoff timer
\* fires, every sendError and every sendCustomMessage call settles, and it
\* does so after at most retryAttempts transport calls and at most
\* retryAttempts - 1 backoff waits.
C33_CallsTerminate ==
    /\ (calls # <<>>) ~> (calls = <<>>)
    /\ [](\A c \in AllCalls :
            c.kind \in {"error", "custom"} =>
                /\ c.posts <= LoopTurns(config.retryAttempts)
                /\ Len(c.waits) <= LoopTurns(config.retryAttempts - 1)
                /\ Len(c.outcomes) <= c.posts)

\* a sendCustomMessage call with retryAttempts 2 has resolved to null after
\* two transport calls that failed and one backoff wait between them
C33_Witness ==
    /\ config.retryAttempts = 2
    /\ settled.kind = "custom"
    /\ settled.pc = "done"
    /\ settled.result = Null
    /\ settled.posts = 2
    /\ Len(settled.waits) = 1

-----------------------------------------------------------------------------
(* Identity of an event *)

\* the third attribute of the identity: context.route, or else context.url
RouteOrUrl(ev) == IF ev.route # "" THEN ev.route ELSE ev.url

\* C34: getErrorHash depends on error.name, error.message and the route (or
\* else the url) of the context only: two events equal on these three get the
\* same identity whatever else differs, and two events with the same name and
\* the same route but different messages get different identities.
C34_HashDeterminedByThree ==
    output.called =>
        LET a == input.a
            b == input.b
        IN  /\ (a.name = b.name /\ a.message = b.message /\ RouteOrUrl(a) = RouteOrUrl(b))
                  => output.value.a = output.value.b
            /\ (a.name = b.name /\ RouteOrUrl(a) = RouteOrUrl(b) /\ a.message # b.message)
                  => output.value.a # output.value.b
            /\ a = b => output.value.a = output.value.b

\* two events that differ in code, method and url, one identity; the route is
\* the same
C34_Witness ==
    /\ output.called
    /\ input.a.route = "/test" /\ input.b.route = "/test"
    /\ input.a.url # input.b.url
    /\ input.a.code # input.b.code
    /\ input.a.method # input.b.method
    /\ input.a.message = "boom" /\ input.b.message = "boom"
    /\ input.a.name = input.b.name
    /\ output.value.a = output.value.b

-----------------------------------------------------------------------------
(* Duplicates and the rate limiter *)

\* the entries of the log before position k that were admitted by the rate
\* limiter and then dropped as duplicates, no older than the window at log[k].at
DuplicatesBefore(k) ==
    {j \in 1..(k - 1) :
        /\ log[j].admitted /\ log[j].duplicate
        /\ log[k].at - log[j].at <= config.rateLimitWindow}

\* C35: an event dropped as a duplicate has been counted by the rate limiter
\* before: the sendError call that drops it adds one to the count of
\* errorCounts at the current time, as every admitted call does; so once
\* rateLimitMax duplicates lie within the window the limiter rejects the next
\* event, a novel one included.
C35_DuplicatesConsumeCapacity ==
    /\ [][(made' = made + 1 /\ Newest'.kind = "error" /\ Newest'.stage = "duplicate") =>
            /\ now \in DOMAIN errorCounts'
            /\ errorCounts'[now] =
                  (IF now \in DOMAIN errorCounts THEN errorCounts[now] ELSE 0) + 1
            /\ Total(errorCounts') = Total([ts \in InWindow(errorCounts) |-> errorCounts[ts]]) + 1
            /\ log'[Len(log')].admitted
        ]_vars
    /\ [](\A k \in DOMAIN log :
            Cardinality(DuplicatesBefore(k)) >= config.rateLimitMax => ~log[k].admitted)

\* capacity 1: an event was delivered, the same event came back after the
\* rate-limit window and was dropped as a duplicate, and a novel event at the
\* same moment was rejected by the rate limiter
C35_Witness ==
    /\ config.rateLimitMax = 1
    /\ Len(log) = 3
    /\ log[1].admitted /\ ~log[1].duplicate
    /\ log[2].at - log[1].at > config.rateLimitWindow
    /\ log[2].hash = log[1].hash /\ log[2].admitted /\ log[2].duplicate
    /\ log[3].at = log[2].at
    /\ log[3].hash # log[1].hash /\ ~log[3].admitted

-----------------------------------------------------------------------------
(* Failed deliveries *)

\* sendError call c resolved to null because its formatter threw or because
\* every attempt of its delivery failed
Failed(c) ==
    /\ c.kind = "error"
    /\ c.stage \in {"delivery", "format-threw"}
    /\ c.pc = "done"
    /\ c.result = Null

\* C36: the rate entry and the dedup record of an admitted event are written
\* when sendError is entered, before the formatter and the delivery run, and
\* no outcome of the delivery changes them. So after a sendError whose
\* formatting or delivery failed, an identical event within deduplicateWindow
\* is dropped as a duplicate, without a request, although nothing was
\* delivered for its identity, and the failed event still counts toward
\* rateLimitMax as long as it is within the rate-limit window.
C36_EntriesKeptOnFailure ==
    /\ [][(made' = made + 1 /\ Newest'.kind = "error"
            /\ Newest'.stage \in {"delivery", "format-threw"}) =>
            /\ now \in DOMAIN errorCounts'
            /\ config.deduplicate =>
                  (/\ getErrorHash(Newest'.ev) \in DOMAIN errorHashes'
                   /\ errorHashes'[getErrorHash(Newest'.ev)] = now)
        ]_vars
    /\ [][(made' = made /\ (calls' # calls \/ settled' # settled)) =>
            (errorCounts' = errorCounts /\ errorHashes' = errorHashes)]_vars
    /\ [][(made' = made + 1 /\ Failed(settled) /\ Newest'.kind = "error") =>
            LET c == Newest'
            IN  /\ (/\ c.stage # "rate-limited"
                    /\ config.deduplicate
                    /\ getErrorHash(c.ev) = getErrorHash(settled.ev)
                    /\ now - settled.at < config.deduplicateWindow)
                   => (c.stage = "duplicate" /\ c.posts = 0 /\ c.result = Null)
                /\ (now - settled.at <= config.rateLimitWindow)
                   => (/\ settled.at \in DOMAIN errorCounts'
                       /\ Total(errorCounts') >=
                             1 + (IF c.stage = "rate-limited" THEN 0 ELSE 1))
        ]_vars

\* every attempt of the delivery of a sendError call failed, and later, still
\* within both windows, its rate entry and its dedup record are in place
C36_Witness ==
    /\ Failed(settled)
    /\ settled.stage = "delivery"
    /\ settled.posts = config.retryAttempts
    /\ Len(settled.outcomes) = settled.posts
    /\ \A n \in DOMAIN settled.outcomes : settled.outcomes[n] # Data
    /\ now > settled.at
    /\ now - settled.at < config.deduplicateWindow
    /\ settled.at \in DOMAIN errorCounts
    /\ getErrorHash(settled.ev) \in DOMAIN errorHashes
    /\ errorHashes[getErrorHash(settled.ev)] = settled.at

-----------------------------------------------------------------------------
(* Transparency of the sweep *)

\* the identities of the events reported
Hashes == {getErrorHash(ev) : ev \in Events}

\* C37: the sweep cannot be observed through the outcomes of sendError. A
\* sweep that removes entries changes, for no time from now on, what
\* checkRateLimit returns and leaves, nor what isDuplicate returns for any
\* identity; and whether a call is admitted, rate-limited or dropped as a
\* duplicate is determined by the earlier calls and their times alone,
\* wherever sweeps were interleaved.
C37_SweepTransparent ==
    /\ [][(made' = made /\ <<errorCounts, errorHashes>>' # <<errorCounts, errorHashes>>) =>
            \A t \in now..(MaxTime + 1) :
                /\ checkRateLimit(errorCounts', t) = checkRateLimit(errorCounts, t)
                /\ \A h \in Hashes :
                      isDuplicate(errorHashes', h, t) = isDuplicate(errorHashes, h, t)
        ]_vars
    /\ [](\A k \in DOMAIN log :
            /\ log[k].admitted
                  <=> Cardinality(AdmittedBefore(k, AgeAtMostWindow)) < config.rateLimitMax
            /\ log[k].duplicate
                  <=> (/\ log[k].admitted
                       /\ config.deduplicate
                       /\ \E j \in RecordedBefore(k) :
                             log[k].at - log[j].at < config.deduplicateWindow))

\* a sweep removed the dedup record of a first event, which nothing else
\* removes, and a second event of another identity was admitted afterwards
C37_Witness ==
    /\ Len(log) = 2
    /\ log[1].admitted /\ ~log[1].duplicate
    /\ log[2].admitted /\ ~log[2].duplicate
    /\ log[2].hash # log[1].hash
    /\ log[1].hash \notin DOMAIN errorHashes
    /\ log[2].hash \in DOMAIN errorHashes
    /\ log[1].at \notin DOMAIN errorCounts

-----------------------------------------------------------------------------
(* Rate-limited calls and the deduplicator *)

\* C38: a sendError call that the rate limiter rejects leaves errorHashes as
\* it is; the identity of the rejected event is not recorded, so that an
\* event whose earlier occurrences were all rejected by the rate limiter is
\* not a duplicate when the limiter admits it: it goes on to formatting and
\* delivery.
C38_RejectedNotRecorded ==
    /\ [][(made' = made + 1 /\ Newest'.stage = "rate-limited") =>
            errorHashes' = errorHashes]_vars
    /\ [](\A k \in DOMAIN log :
            (log[k].admitted /\ \A j \in 1..(k - 1) :
                                    log[j].hash = log[k].hash => ~log[j].admitted)
            => ~log[k].duplicate)
    /\ [](\A c \in AllCalls : \A k \in DOMAIN log :
            (/\ c.kind = "error" /\ log[k].id = c.id /\ log[k].admitted
             /\ \A j \in 1..(k - 1) : log[j].hash = log[k].hash => ~log[j].admitted)
            => c.stage \in {"delivery", "format-threw"})

\* capacity 1: a first event was admitted, a second one of another identity
\* was rejected at the same moment, and the second, reported again after the
\* rate-limit window and within the deduplication window of its rejected
\* occurrence, was delivered
C38_Witness ==
    /\ config.rateLimitMax = 1
    /\ Len(log) = 3
    /\ log[1].admitted
    /\ log[2].hash # log[1].hash /\ ~log[2].admitted
    /\ log[3].hash = log[2].hash /\ log[3].admitted /\ ~log[3].duplicate
    /\ log[3].at - log[2].at < config.deduplicateWindow
    /\ settled.id = log[3].id
    /\ settled.stage = "delivery"
    /\ settled.result = Data

-----------------------------------------------------------------------------
(* Raw messages *)

\* C39: a sendRawMessage call makes exactly one transport attempt, without a
\* retry and without a backoff wait, and resolves to the answer, or to null
\* when the attempt failed; it never rejects. It does not consult the rate
\* limiter nor the deduplicator: the call is made also with the limiter at
\* capacity, it is not in the limiter's log, and no step of it changes
\* errorCounts or errorHashes.
C39_RawMessageOneAttempt ==
    /\ [](\A c \in AllCalls :
            c.kind = "raw" =>
                /\ c.stage = "delivery"
                /\ c.posts = 1
                /\ c.waits = <<>>
                /\ Len(c.outcomes) <= 1
                /\ (c.pc = "post") <=> (c.outcomes = <<>>)
                /\ c.outcomes # <<>> =>
                      /\ c.pc = "done"
                      /\ c.result = IF c.outcomes[1] = Data THEN Data ELSE Null
                /\ \A k \in DOMAIN log : log[k].id # c.id)
    /\ [][(\/ (made' = made + 1 /\ Newest'.kind = "raw")
           \/ (made' = made /\ settled' # settled /\ settled'.kind = "raw")) =>
            (errorCounts' = errorCounts /\ errorHashes' = errorHashes /\ log' = log)]_vars

\* with the rate limiter at capacity, a raw message was sent and its only
\* attempt failed: the call resolved to null after one request
C39_Witness ==
    /\ Len(log) >= 1
    /\ log[Len(log)].admitted
    /\ now - log[Len(log)].at <= config.rateLimitWindow
    /\ Total(errorCounts) = config.rateLimitMax
    /\ settled.kind = "raw"
    /\ settled.at >= log[Len(log)].at
    /\ settled.posts = 1
    /\ settled.outcomes # <<>> /\ settled.outcomes[1] # Data
    /\ settled.pc = "done"
    /\ settled.result = Null

====
